---------------------------- MODULE Spec2Model ----------------------------
(***************************************************************************)
(* Layer stack, snapshot history, stroke capture and asynchronous image    *)
(* operations of the App component (src/src/App.jsx) and of the layer      *)
(* panel (src/unnamed/part_000, src/unnamed/part_001).                     *)
(*                                                                         *)
(* Every React state cell (useState) is a variable.  An event handler is   *)
(* one action: it reads the state cells of the render it was created in    *)
(* and queues updates that are all applied when the handler returns.  A    *)
(* callback that runs later (FileReader/Image onload, the continuation of  *)
(* an await) still reads the state cells of the render in which the        *)
(* operation was started; those captured values travel in the pending      *)
(* task.  Functional updates (setX(prev => ...)) read the current cell.    *)
(*                                                                         *)
(* Numbers: opacities are kept in hundredths (1.0 is 100, the slider step  *)
(* is 0.01); history indices are 0-based as in the code, sequences are     *)
(* 1-based, so history[historyIndex] of the code is history[historyIndex+1]*)
(* here.                                                                   *)
(***************************************************************************)
EXTENDS Integers, Sequences, FiniteSets, TLC

(***************************************************************************)
(* Bounds of the model.                                                    *)
(***************************************************************************)
\* layer ids handed out by uuidv4() are 1..MaxId
MaxId == 3
\* no push makes the history longer than this
MaxHist == 3
\* strokes ever started
MaxStrokes == 2
\* the largest width, height or radius a resize is followed to, in
\* thousandths of a pixel
MaxDim == 400000
\* pointer positions recorded in one stroke
MaxPts == 2
\* image imports and filters in flight at the same time
MaxPending == 1
\* uses, in one session, of what is not a layer operation, undo or redo:
\* panel controls, brush controls, strokes, image imports and filters
MaxExtras == 2

(***************************************************************************)
(* Values.                                                                 *)
(***************************************************************************)
Ids == 1..MaxId

\* stands for a property the object does not have (undefined)
Undef == -1

\* an image source (data URL): its decoded size and RGBA pixels
NoSrc == [width |-> 0, height |-> 0, data |-> <<>>]

\* the files the user can pick in the file input
Files ==
  { [name |-> "a.png",
     src |-> [width |-> 2, height |-> 1,
              data |-> << <<100, 150, 200, 255>>, <<255, 255, 255, 255>> >>]] }

\* the tool buttons; ellipse and line behave as rect in every handler
Tools == {"brush", "eraser", "rect"}
BrushColors == {"#000000", "#ff0000"}
BrushSizes == {6, 12}
BrushOpacities == {100, 50}

\* what the layer panel's controls can send
OpacityInputs == {100, 50}
BlendInputs == {"normal", "multiply"}
FilterKinds == {"grayscale", "sepia", "invert"}

\* the pointer's way over the stage: where it is at the k-th position a
\* gesture records
PointerPath == << <<10, 10>>, <<20, 10>>, <<20, 30>>, <<40, 30>> >>

\* e.target.files[0] when the file dialog was cancelled
NoFile == [name |-> "", src |-> NoSrc]


(***************************************************************************)
(* Layers.  A layer object carries the properties the code gives it; a     *)
(* property the object lacks is Undef / NoSrc / FALSE.                     *)
(***************************************************************************)
\* { id, name, type: 'raster', [isBase: true,] visible, opacity: 1, blend, content: [] }
RasterLayer(id, name, isBase) ==
  [id |-> id, name |-> name, type |-> "raster", isBase |-> isBase,
   visible |-> TRUE, opacity |-> 100, blend |-> "normal", content |-> <<>>,
   src |-> NoSrc, x |-> Undef, y |-> Undef, width |-> Undef, height |-> Undef,
   draggable |-> FALSE]

\* { id, name: file.name, type: 'image', src, x: 50, y: 50, width, height, ... }
ImageLayer(id, name, src) ==
  [id |-> id, name |-> name, type |-> "image", isBase |-> FALSE,
   visible |-> TRUE, opacity |-> 100, blend |-> "normal", content |-> <<>>,
   src |-> src, x |-> 50, y |-> 50, width |-> src.width, height |-> src.height,
   draggable |-> TRUE]

\* the default background layer of useState
InitialLayers == << RasterLayer(1, "Background", TRUE) >>

LayerIds(ls) == { ls[i].id : i \in 1..Len(ls) }

\* layers.find(l => l.id === id) is defined
HasLayer(ls, id) == id \in LayerIds(ls)

\* layers.find(l => l.id === id)
findLayer(ls, id) == ls[CHOOSE i \in 1..Len(ls) :
                          /\ ls[i].id = id
                          /\ \A j \in 1..(i - 1) : ls[j].id # id]

\* layers.findIndex(l => l.id === id), 0-based, -1 when absent
findIndex(ls, id) ==
  IF HasLayer(ls, id)
    THEN (CHOOSE i \in 1..Len(ls) :
            /\ ls[i].id = id
            /\ \A j \in 1..(i - 1) : ls[j].id # id) - 1
    ELSE -1

\* prev.map(p => p.id === id ? { ...p, [field]: value } : p)
MapLayer(ls, id, field, value) ==
  [i \in 1..Len(ls) |->
     IF ls[i].id = id THEN [ls[i] EXCEPT ![field] = value] ELSE ls[i]]

\* prev.map(p => p.id === id ? { ...p, visible: !p.visible } : p)
MapToggleVisible(ls, id) ==
  [i \in 1..Len(ls) |->
     IF ls[i].id = id THEN [ls[i] EXCEPT !.visible = ~@] ELSE ls[i]]

Min(a, b) == IF a < b THEN a ELSE b
Max(a, b) == IF a > b THEN a ELSE b

(***************************************************************************)
(* JSON.stringify / JSON.parse of { layers }.  A finite number, a string,  *)
(* a boolean and an array survive the round trip; the text of a snapshot   *)
(* is kept as the tree it encodes.                                         *)
(***************************************************************************)
JsonObject(l) ==
  [id |-> l.id, name |-> l.name, type |-> l.type, isBase |-> l.isBase,
   visible |-> l.visible, opacity |-> l.opacity, blend |-> l.blend,
   content |-> l.content, src |-> l.src, x |-> l.x, y |-> l.y,
   width |-> l.width, height |-> l.height, draggable |-> l.draggable]

JSONstringify(ls) == [layers |-> [i \in 1..Len(ls) |-> JsonObject(ls[i])]]

JSONparse(snapshot) ==
  [layers |-> [i \in 1..Len(snapshot.layers) |-> JsonObject(snapshot.layers[i])]]

(***************************************************************************)
(* pushHistory(), as a function of the history, the pointer and the layers *)
(* of the render whose closure runs it.                                    *)
(***************************************************************************)
\* a push that forgets to cut the redo tail and steps the pointer by one
PushHistoryNoTruncate(h, idx, ls) ==
  [history |-> Append(h, JSONstringify(ls)), historyIndex |-> idx + 1]

\* a push that cuts one snapshot too many: slice(0, historyIndex)
PushHistoryShortSlice(h, idx, ls) ==
  LET next == Append(SubSeq(h, 1, idx), JSONstringify(ls))
  IN  [history |-> next, historyIndex |-> Len(next) - 1]

\* a push that sets the pointer to next.length
PushHistoryIndexOff(h, idx, ls) ==
  LET next == Append(SubSeq(h, 1, idx + 1), JSONstringify(ls))
  IN  [history |-> next, historyIndex |-> Len(next)]

PushHistory(h, idx, ls) ==
  LET next == Append(SubSeq(h, 1, idx + 1), JSONstringify(ls))
  IN  [history |-> next, historyIndex |-> Len(next) - 1]

\* the bound on the history: a push from pointer idx is modelled only when
\* its result has at most MaxHist snapshots
CanPush(idx) == idx + 2 <= MaxHist

(***************************************************************************)
(* State.                                                                  *)
(***************************************************************************)
VARIABLES
  mounted,        \* the mount effect (useEffect(..., [])) has run
  tool, brushColor, brushSize, brushOpacity,
  layers,         \* the layer stack, bottom first
  activeLayerId,
  lines,          \* strokes per layer id
  history,        \* snapshots
  historyIndex,   \* 0-based pointer into history, -1 before the first push
  isDrawing,
  nextId,         \* the next value uuidv4() hands out for a layer
  pending,        \* image imports and filters in flight
  extras,         \* panel controls, brush controls, strokes, imports and
                  \* filters used so far
  \* bookkeeping of the run, read by no handler
  lastOp,         \* the handler that last changed the state
  afterUndo,      \* the handler before that one was undo
  edits,          \* layer edits so far while nothing else has run, else -1
  committed,      \* the stacks S0, S1, ..., Sk of these layer edits, and the
                  \* number of undos that have followed them
  ended,          \* the ids of the strokes whose gesture has ended
  gesture         \* the pointer gesture under way or just ended: the layer
                  \* it began on, the positions of its events in order, and
                  \* the strokes and the history at its pointer-down

vars == << mounted, tool, brushColor, brushSize, brushOpacity, layers,
           activeLayerId, lines, history, historyIndex, isDrawing, nextId,
           pending, extras, lastOp, afterUndo, edits, committed,
           ended, gesture >>

brushVars == << tool, brushColor, brushSize, brushOpacity >>
historyVars == << history, historyIndex >>

NoGesture == [phase |-> "none"]
NoCommitted == [stacks |-> << >>, undos |-> 0]

\* lastOp, afterUndo and edits after handler op has changed the state;
\* counts: op is a layer edit (add, delete, reorder) that changed the stack
Track(op, counts) ==
  /\ lastOp' = op
  /\ afterUndo' = (lastOp = "undo")
  /\ edits' = IF counts /\ edits >= 0 THEN edits + 1 ELSE -1
  /\ committed' =
       IF counts /\ edits >= 0
         THEN [stacks |-> Append(committed.stacks, layers'), undos |-> 0]
       ELSE IF op = "undo" /\ committed.stacks # << >>
         THEN [committed EXCEPT !.undos = @ + 1]
       ELSE NoCommitted
  /\ ended' = IF op \in {"handleMouseUp", "handleMouseLeave"}
                THEN UNION { { lines[id][k].id : k \in 1..Len(lines[id]) } :
                             id \in Ids }
                ELSE ended

\* a handler that is no pointer event ends the bookkeeping of a gesture
Other(op, counts) ==
  /\ Track(op, counts)
  /\ gesture' = NoGesture

Init ==
  /\ mounted = FALSE
  /\ tool = "brush"
  /\ brushColor = "#000000"
  /\ brushSize = 6
  /\ brushOpacity = 100
  /\ layers = InitialLayers
  /\ activeLayerId = InitialLayers[1].id
  /\ lines = [id \in Ids |-> <<>>]
  /\ history = <<>>
  /\ historyIndex = -1
  /\ isDrawing = FALSE
  /\ nextId = 2
  /\ pending = <<>>
  /\ extras = 0
  /\ lastOp = "init"
  /\ afterUndo = FALSE
  /\ edits = 0
  /\ committed = [stacks |-> << layers >>, undos |-> 0]
  /\ ended = {}
  /\ gesture = NoGesture

\* useEffect(() => { pushHistory() }, []); React runs it before any event
Mount ==
  /\ ~mounted
  /\ mounted' = TRUE
  /\ LET p == PushHistory(history, historyIndex, layers)
     IN  /\ history' = p.history
         /\ historyIndex' = p.historyIndex
  /\ lastOp' = "mount"
  /\ UNCHANGED << brushVars, layers, activeLayerId, lines, isDrawing, nextId,
                  pending, extras, afterUndo, edits, committed,
                  ended, gesture >>

(***************************************************************************)
(* Layer operations.  bubble: the click that calls the handler sits inside *)
(* a layer row whose own onClick then runs setActiveLayerId(id)            *)
(* (App.jsx line 419, part_001 line 48).  A handler that returns at its    *)
(* guard sets no state: the step changes nothing.                          *)
(***************************************************************************)
\* the handler returned early; only the row's onClick may have acted
RowClickOnly(id, bubble) ==
  IF bubble /\ activeLayerId # id
    THEN /\ activeLayerId' = id
         /\ Other("setActiveLayer", FALSE)
         /\ UNCHANGED << mounted, brushVars, layers, lines, historyVars,
                         isDrawing, nextId, pending, extras >>
    ELSE UNCHANGED vars

addLayer(name) ==
  /\ mounted
  /\ nextId <= MaxId
  /\ CanPush(historyIndex)
  /\ LET newLayer == RasterLayer(nextId, name, FALSE)
         p == PushHistory(history, historyIndex, layers)
     IN  /\ layers' = Append(layers, newLayer)
         /\ activeLayerId' = newLayer.id
         /\ history' = p.history
         /\ historyIndex' = p.historyIndex
  /\ nextId' = nextId + 1
  /\ Other("addLayer", TRUE)
  /\ UNCHANGED << mounted, brushVars, lines, isDrawing, pending, extras >>

\* the guard with the wrong length
DeleteRefusedAtZero(ls) == Len(ls) = 0

\* no guard at all
DeleteRefusedNever(ls) == FALSE

\* if (layers.length === 1) return
DeleteRefused(ls) == Len(ls) = 1

\* what deleteLayer(id) leaves, called in a render with stack ls, active id
\* active, history h and pointer idx
DeleteResult(ls, active, h, idx, id) ==
  IF DeleteRefused(ls)
    THEN [layers |-> ls, activeLayerId |-> active,
          history |-> h, historyIndex |-> idx]
    ELSE LET next == SelectSeq(ls, LAMBDA l : l.id # id)
             \* next[next.length - 1].id of an empty next is a TypeError:
             \* the handler stops there, after setLayers(next)
             threw == active = id /\ Len(next) = 0
             p == PushHistory(h, idx, ls)
         IN  [layers |-> next,
              activeLayerId |-> IF ~threw /\ active = id
                                  THEN next[Len(next)].id
                                  ELSE active,
              history |-> IF threw THEN h ELSE p.history,
              historyIndex |-> IF threw THEN idx ELSE p.historyIndex]

deleteLayer(id, bubble) ==
  /\ mounted
  /\ bubble => HasLayer(layers, id)
  /\ IF DeleteRefused(layers)
       THEN RowClickOnly(id, bubble)
       ELSE LET r == DeleteResult(layers, activeLayerId, history, historyIndex, id)
            IN  /\ r.history # history => CanPush(historyIndex)
                /\ layers' = r.layers
                /\ activeLayerId' = IF bubble THEN id ELSE r.activeLayerId
                /\ history' = r.history
                /\ historyIndex' = r.historyIndex
                /\ Other("deleteLayer", r.layers # layers)
                /\ UNCHANGED << mounted, brushVars, lines, isDrawing, nextId,
                                pending, extras >>

\* copy.splice(idx, 1) and copy.splice(newIdx, 0, item), 0-based positions
Splice(ls, idx, newIdx) ==
  LET item == ls[idx + 1]
      cut == SubSeq(ls, 1, idx) \o SubSeq(ls, idx + 2, Len(ls))
  IN  SubSeq(cut, 1, newIdx) \o << item >> \o SubSeq(cut, newIdx + 1, Len(cut))

reorderLayer(id, direction, bubble) ==
  /\ mounted
  /\ bubble => HasLayer(layers, id)
  /\ LET idx == findIndex(layers, id)
     IN  IF idx = -1
           THEN RowClickOnly(id, bubble)
           ELSE LET newIdx == Min(Len(layers) - 1, Max(0, idx + direction))
                    copy == Splice(layers, idx, newIdx)
                    p == PushHistory(history, historyIndex, layers)
                IN  /\ CanPush(historyIndex)
                    /\ layers' = copy
                    /\ history' = p.history
                    /\ historyIndex' = p.historyIndex
                    /\ activeLayerId' = IF bubble THEN id ELSE activeLayerId
                    /\ Other("reorderLayer", copy # layers)
                    /\ UNCHANGED << mounted, brushVars, lines, isDrawing,
                                    nextId, pending, extras >>

\* the layer row's onClick, and the panel's Select button
setActiveLayer(id) ==
  /\ mounted
  /\ HasLayer(layers, id)
  /\ RowClickOnly(id, TRUE)

(***************************************************************************)
(* Undo and redo.                                                          *)
(***************************************************************************)
\* if (historyIndex <= 0) return
UndoRefused(h, idx) == idx <= 0

\* if (historyIndex >= history.length - 1) return
RedoRefused(h, idx) == idx >= Len(h) - 1

\* the layers and the pointer undo() leaves
UndoResult(ls, h, idx) ==
  IF UndoRefused(h, idx)
    THEN [layers |-> ls, historyIndex |-> idx]
    ELSE [layers |-> JSONparse(h[idx]).layers, historyIndex |-> idx - 1]

\* the layers and the pointer redo() leaves
RedoResult(ls, h, idx) ==
  IF RedoRefused(h, idx)
    THEN [layers |-> ls, historyIndex |-> idx]
    ELSE [layers |-> JSONparse(h[idx + 2]).layers, historyIndex |-> idx + 1]

undo ==
  /\ mounted
  /\ IF UndoRefused(history, historyIndex)
       THEN UNCHANGED vars
       ELSE /\ LET r == UndoResult(layers, history, historyIndex)
               IN  /\ layers' = r.layers
                   /\ historyIndex' = r.historyIndex
            /\ Other("undo", FALSE)
            /\ UNCHANGED << mounted, brushVars, activeLayerId, lines, history,
                            isDrawing, nextId, pending, extras >>

redo ==
  /\ mounted
  /\ IF RedoRefused(history, historyIndex)
       THEN UNCHANGED vars
       ELSE /\ LET r == RedoResult(layers, history, historyIndex)
               IN  /\ layers' = r.layers
                   /\ historyIndex' = r.historyIndex
            /\ Other("redo", FALSE)
            /\ UNCHANGED << mounted, brushVars, activeLayerId, lines, history,
                            isDrawing, nextId, pending, extras >>

(***************************************************************************)
(* The layer panel's visibility, opacity and blend controls (App.jsx lines *)
(* 420-431; toggleVisibility, changeOpacity, changeBlendMode of the        *)
(* panel component).                                                       *)
(***************************************************************************)
\* setLayers(prev => prev.map(...)) and nothing else; next is the mapped stack
PanelEdit(op, id, bubble, next) ==
  /\ mounted
  /\ HasLayer(layers, id)
  /\ extras < MaxExtras
  /\ extras' = extras + 1
  /\ layers' = next
  /\ activeLayerId' = IF bubble THEN id ELSE activeLayerId
  /\ Other(op, FALSE)
  /\ UNCHANGED << mounted, brushVars, lines, historyVars, isDrawing, nextId,
                  pending >>

toggleVisibility(id, bubble) ==
  PanelEdit("toggleVisibility", id, bubble, MapToggleVisible(layers, id))

changeOpacity(id, value, bubble) ==
  PanelEdit("changeOpacity", id, bubble, MapLayer(layers, id, "opacity", value))

changeBlendMode(id, value, bubble) ==
  PanelEdit("changeBlendMode", id, bubble, MapLayer(layers, id, "blend", value))

(***************************************************************************)
(* Tool and brush controls.  Setting a state cell to the value it has      *)
(* changes nothing.                                                        *)
(***************************************************************************)
BrushEdit(op, t, c, n, o) ==
  /\ mounted
  /\ << t, c, n, o >> # brushVars
  /\ extras < MaxExtras
  /\ extras' = extras + 1
  /\ tool' = t
  /\ brushColor' = c
  /\ brushSize' = n
  /\ brushOpacity' = o
  /\ Other(op, FALSE)
  /\ UNCHANGED << mounted, layers, activeLayerId, lines, historyVars, isDrawing,
                  nextId, pending >>

setTool(t) == BrushEdit("setTool", t, brushColor, brushSize, brushOpacity)

setBrushColor(c) == BrushEdit("setBrushColor", tool, c, brushSize, brushOpacity)

setBrushSize(n) == BrushEdit("setBrushSize", tool, brushColor, n, brushOpacity)

setBrushOpacity(o) == BrushEdit("setBrushOpacity", tool, brushColor, brushSize, o)

(***************************************************************************)
(* Stroke capture: the Stage's mouse handlers.  A stroke's points are the  *)
(* flat array [x0, y0, x1, y1, ...].                                       *)
(***************************************************************************)
\* tool !== 'brush' && tool !== 'eraser'
NotDrawingTool(t) == t # "brush" /\ t # "eraser"

\* strokes recorded so far, over all layer ids
RECURSIVE SumStrokes(_, _)
SumStrokes(ln, ids) ==
  IF ids = {} THEN 0
  ELSE LET id == CHOOSE x \in ids : TRUE
       IN  Len(ln[id]) + SumStrokes(ln, ids \ {id})

TotalStrokes(ln) == SumStrokes(ln, Ids)

\* an extension that puts the new position in front
ExtendPointsFront(points, pos) == pos \o points

\* last.points.concat([pos.x, pos.y])
ExtendPoints(points, pos) == points \o pos

handleMouseDown(pos) ==
  /\ mounted
  /\ pos = PointerPath[1]
  /\ IF NotDrawingTool(tool)
       THEN UNCHANGED vars
       ELSE /\ TotalStrokes(lines) < MaxStrokes
            /\ extras < MaxExtras
            /\ extras' = extras + 1
            /\ isDrawing' = TRUE
            /\ LET lid == activeLayerId
                   stroke == [id |-> TotalStrokes(lines) + 1, points |-> pos,
                              color |-> brushColor, size |-> brushSize,
                              opacity |-> brushOpacity, mode |-> tool]
               IN  /\ lines' = [lines EXCEPT ![lid] = Append(@, stroke)]
                   /\ gesture' = [phase |-> "open", lid |-> lid, pts |-> << pos >>,
                                  linesBefore |-> lines,
                                  historyBefore |-> history,
                                  historyIndexBefore |-> historyIndex]
            /\ Track("handleMouseDown", FALSE)
            /\ UNCHANGED << mounted, brushVars, layers, activeLayerId,
                            historyVars, nextId, pending >>

handleMouseMove(pos) ==
  /\ mounted
  /\ LET lid == activeLayerId
         list == lines[lid]
         last == list[Len(list)]
     IN  IF ~isDrawing \/ NotDrawingTool(tool) \/ Len(list) = 0
           \* the early returns, and if (!list || list.length === 0) return prev
           THEN UNCHANGED vars
           ELSE /\ Len(last.points) < 2 * MaxPts
                /\ pos = PointerPath[(Len(last.points) \div 2) + 1]
                /\ lines' = [lines EXCEPT ![lid][Len(list)].points =
                                            ExtendPoints(@, pos)]
                /\ Track("handleMouseMove", FALSE)
                /\ gesture' = IF gesture.phase = "open"
                                THEN [gesture EXCEPT !.pts = Append(@, pos)]
                                ELSE NoGesture
                /\ UNCHANGED << mounted, brushVars, layers, activeLayerId,
                                historyVars, isDrawing, nextId, pending, extras >>

handleMouseUp ==
  /\ mounted
  /\ IF NotDrawingTool(tool)
       THEN UNCHANGED vars
       ELSE /\ CanPush(historyIndex)
            /\ isDrawing' = FALSE
            /\ LET p == PushHistory(history, historyIndex, layers)
               IN  /\ history' = p.history
                   /\ historyIndex' = p.historyIndex
            /\ Track("handleMouseUp", FALSE)
            /\ gesture' = IF gesture.phase = "open"
                            THEN [gesture EXCEPT !.phase = "done"]
                            ELSE NoGesture
            /\ UNCHANGED << mounted, brushVars, layers, activeLayerId, lines,
                            nextId, pending, extras >>

handleMouseLeave ==
  /\ mounted
  /\ IF ~isDrawing
       \* setIsDrawing(false) of a false isDrawing changes nothing
       THEN UNCHANGED vars
       ELSE /\ isDrawing' = FALSE
            /\ Track("handleMouseLeave", FALSE)
            /\ gesture' = IF gesture.phase = "open"
                            THEN [gesture EXCEPT !.phase = "left"]
                            ELSE NoGesture
            /\ UNCHANGED << mounted, brushVars, layers, activeLayerId, lines,
                            historyVars, nextId, pending, extras >>

(***************************************************************************)
(* Filters: the pixel loop of applyFilterToLayer over the RGBA bytes of a  *)
(* Uint8ClampedArray.  A channel value is the fraction n / d, with the     *)
(* code's decimal coefficients scaled by d.                                *)
(***************************************************************************)
\* the store into a Uint8Array instead: the fraction is dropped
ToUint8Truncated(n, d) ==
  LET q == n \div d
  IN  IF q < 0 THEN 0 ELSE IF q > 255 THEN 255 ELSE q

\* the store into a Uint8ClampedArray: round to nearest, ties to even, and
\* clamp to 0..255
ToUint8Clamped(n, d) ==
  LET q == n \div d
      r == n % d
      rounded == IF 2 * r > d \/ (2 * r = d /\ q % 2 = 1) THEN q + 1 ELSE q
  IN  IF rounded < 0 THEN 0 ELSE IF rounded > 255 THEN 255 ELSE rounded

FilterPixel(px, filter) ==
  LET r == px[1]
      g == px[2]
      b == px[3]
  IN  IF filter = "grayscale"
        THEN LET v == ToUint8Clamped(2126 * r + 7152 * g + 722 * b, 10000)
             IN  << v, v, v, px[4] >>
      ELSE IF filter = "sepia"
        THEN << ToUint8Clamped(393 * r + 769 * g + 189 * b, 1000),
                ToUint8Clamped(349 * r + 686 * g + 168 * b, 1000),
                ToUint8Clamped(272 * r + 534 * g + 131 * b, 1000),
                px[4] >>
      ELSE IF filter = "invert"
        THEN << 255 - r, 255 - g, 255 - b, px[4] >>
      ELSE px

\* drawImage, getImageData, the loop, putImageData, toDataURL
FilterSrc(src, filter) ==
  [src EXCEPT !.data = [i \in 1..Len(src.data) |-> FilterPixel(src.data[i], filter)]]

(***************************************************************************)
(* Asynchronous operations.  A task carries what the closure of its        *)
(* callback captured at the start: the layers, the history and the pointer *)
(* of that render.                                                         *)
(***************************************************************************)
Task(kind, file, layerId, filter, src) ==
  [kind |-> kind, file |-> file, layerId |-> layerId, filter |-> filter,
   src |-> src, layers |-> layers, history |-> history,
   historyIndex |-> historyIndex]

RemoveAt(q, i) == SubSeq(q, 1, i - 1) \o SubSeq(q, i + 1, Len(q))

\* the file input's onChange: reader.readAsDataURL(file)
handleUpload(file) ==
  /\ mounted
  /\ IF file = NoFile
       THEN UNCHANGED vars
       ELSE /\ Len(pending) < MaxPending
            /\ extras < MaxExtras
            /\ extras' = extras + 1
            /\ pending' = Append(pending, Task("upload", file, 0, "", file.src))
            /\ Other("handleUpload", FALSE)
            /\ UNCHANGED << mounted, brushVars, layers, activeLayerId, lines,
                            historyVars, isDrawing, nextId >>

\* an append to the stack the closure captured: setLayers([...layers, newLayer])
AppendToCaptured(prev, captured, newLayer) == Append(captured, newLayer)

\* setLayers(prev => [...prev, newLayer]); captured: the closure's layers
AppendToPrev(prev, captured, newLayer) == Append(prev, newLayer)

\* reader.onload and then img.onload of an import
uploadLoaded(i) ==
  /\ i \in 1..Len(pending)
  /\ pending[i].kind = "upload"
  /\ nextId <= MaxId
  /\ CanPush(pending[i].historyIndex)
  /\ LET t == pending[i]
         newLayer == ImageLayer(nextId, t.file.name, t.src)
         p == PushHistory(t.history, t.historyIndex, t.layers)
     IN  /\ layers' = AppendToPrev(layers, t.layers, newLayer)
         /\ activeLayerId' = newLayer.id
         /\ history' = p.history
         /\ historyIndex' = p.historyIndex
  /\ nextId' = nextId + 1
  /\ pending' = RemoveAt(pending, i)
  /\ Other("uploadLoaded", FALSE)
  /\ UNCHANGED << mounted, brushVars, lines, isDrawing, extras >>

\* the filter buttons: applyFilterToLayer(activeLayerId, filter) up to its await
applyFilterToLayer(layerId, filter) ==
  /\ mounted
  /\ IF ~HasLayer(layers, layerId)
       THEN UNCHANGED vars
       ELSE LET l == findLayer(layers, layerId)
            IN  IF l.type # "image"
                  THEN UNCHANGED vars
                  ELSE /\ Len(pending) < MaxPending
                       /\ extras < MaxExtras
                       /\ extras' = extras + 1
                       /\ pending' = Append(pending,
                                            Task("filter", NoFile, layerId, filter, l.src))
                       /\ Other("applyFilterToLayer", FALSE)
                       /\ UNCHANGED << mounted, brushVars, layers, activeLayerId,
                                       lines, historyVars, isDrawing, nextId >>

\* applyFilterToLayer after its await
filterLoaded(i) ==
  /\ i \in 1..Len(pending)
  /\ pending[i].kind = "filter"
  /\ CanPush(pending[i].historyIndex)
  /\ LET t == pending[i]
         newSrc == FilterSrc(t.src, t.filter)
         p == PushHistory(t.history, t.historyIndex, t.layers)
     IN  /\ layers' = MapLayer(layers, t.layerId, "src", newSrc)
         /\ history' = p.history
         /\ historyIndex' = p.historyIndex
  /\ pending' = RemoveAt(pending, i)
  /\ Other("filterLoaded", FALSE)
  /\ UNCHANGED << mounted, brushVars, activeLayerId, lines, isDrawing, nextId,
                  extras >>

\* the file or the image fails to decode: no onerror is set, no callback runs
decodeFails(i) ==
  /\ i \in 1..Len(pending)
  /\ pending' = RemoveAt(pending, i)
  /\ Other("decodeFails", FALSE)
  /\ UNCHANGED << mounted, brushVars, layers, activeLayerId, lines, historyVars,
                  isDrawing, nextId, extras >>

Next ==
  \/ Mount
  \/ addLayer("Layer")
  \/ \E id \in Ids, bubble \in BOOLEAN : deleteLayer(id, bubble)
  \/ \E id \in Ids, direction \in {-1, 1}, bubble \in BOOLEAN :
       reorderLayer(id, direction, bubble)
  \/ \E id \in Ids : setActiveLayer(id)
  \/ undo
  \/ redo
  \/ \E id \in Ids, bubble \in BOOLEAN : toggleVisibility(id, bubble)
  \/ \E id \in Ids, value \in OpacityInputs, bubble \in BOOLEAN :
       changeOpacity(id, value, bubble)
  \/ \E id \in Ids, value \in BlendInputs, bubble \in BOOLEAN :
       changeBlendMode(id, value, bubble)
  \/ \E t \in Tools : setTool(t)
  \/ \E c \in BrushColors : setBrushColor(c)
  \/ \E n \in BrushSizes : setBrushSize(n)
  \/ \E o \in BrushOpacities : setBrushOpacity(o)
  \/ \E k \in 1..Len(PointerPath) : handleMouseDown(PointerPath[k])
  \/ \E k \in 1..Len(PointerPath) : handleMouseMove(PointerPath[k])
  \/ handleMouseUp
  \/ handleMouseLeave
  \/ \E file \in Files \cup {NoFile} : handleUpload(file)
  \/ \E i \in 1..MaxPending : uploadLoaded(i)
  \/ \E filter \in FilterKinds : applyFilterToLayer(activeLayerId, filter)
  \/ \E i \in 1..MaxPending : filterLoaded(i)
  \/ \E i \in 1..MaxPending : decodeFails(i)

Spec == Init /\ [][Next]_vars

(***************************************************************************)
(* The panel's opacity setter called with any number.  The slider that     *)
(* calls it in the interface (min 0, max 1) only sends values of [0, 1];   *)
(* changeOpacity(id, value) itself takes what it is given.                 *)
(***************************************************************************)
\* values for the parameter of changeOpacity, in hundredths
OpacityArgs == {-50, 0, 50, 100, 150}

NextOpacity ==
  \/ Mount
  \/ addLayer("Layer")
  \/ \E id \in Ids, value \in OpacityArgs : changeOpacity(id, value, FALSE)

SpecOpacity == Init /\ [][NextOpacity]_vars

(***************************************************************************)
(* The LayersPanel component's Merge Up and Merge Down buttons, on the     *)
(* state of App.  The onClick calls e.stopPropagation() and then a name    *)
(* that is bound nowhere in the component: part_000 takes the props        *)
(* mergeUpLayer and mergeDownLayer and calls mergeUp and mergeDown,        *)
(* part_001 takes mergeUp and mergeDown and calls mergeUpLayer and         *)
(* mergeDownLayer.  The call is a ReferenceError; React reports it and no  *)
(* state cell is set.                                                      *)
(***************************************************************************)
MergeClick(op, id) ==
  /\ mounted
  /\ HasLayer(layers, id)
  /\ lastOp # op
  /\ Other(op, FALSE)
  /\ UNCHANGED << mounted, brushVars, layers, activeLayerId, lines, historyVars,
                  isDrawing, nextId, pending, extras >>

\* disabled={layers[0].id === layer.id}
mergeUp(id) ==
  /\ layers[1].id # id
  /\ MergeClick("mergeUp", id)

\* disabled={layers[layers.length - 1].id === layer.id}
mergeDown(id) ==
  /\ layers[Len(layers)].id # id
  /\ MergeClick("mergeDown", id)

NextPanel ==
  \/ Mount
  \/ addLayer("Layer")
  \/ \E id \in Ids : setActiveLayer(id)
  \/ \E k \in 1..Len(PointerPath) : handleMouseDown(PointerPath[k])
  \/ handleMouseUp
  \/ \E id \in Ids : mergeUp(id)
  \/ \E id \in Ids : mergeDown(id)

SpecPanel == Init /\ [][NextPanel]_vars

(***************************************************************************)
(* Resize: onTransformEnd of the Rect, the Ellipse and the image of        *)
(* KonvaImage, applied to one selected layer.  A JavaScript number is      *)
(* [nan, v]: NaN, or the value v in thousandths (a product is cut to the   *)
(* thousandth, which does not change how it compares with 5).  The Konva   *)
(* node is drawn from the layer's props, so node.width() is layer.width;   *)
(* node.radiusX and node.radiusY, written without the call, are the        *)
(* accessor functions themselves.                                          *)
(***************************************************************************)
Num(v) == [nan |-> FALSE, v |-> v]
NaN == [nan |-> TRUE, v |-> 0]

\* a * b of two numbers
Times(a, b) == IF a.nan \/ b.nan THEN NaN ELSE Num((a.v * b.v) \div 1000)

\* a function object used as a number: Number(function) is NaN
FunctionAsNumber == NaN

\* Math.max(a, b): NaN when an argument is NaN
MathMax(a, b) == IF a.nan \/ b.nan THEN NaN ELSE IF a.v >= b.v THEN a ELSE b

\* the scale factors the Transformer leaves on the node: 0.001, 0.5, 2
ScaleFactors == { Num(1), Num(500), Num(2000) }

\* sizes of the layer before the resize: 8 and 100 pixels
StartDims == { Num(8000), Num(100000) }

\* the layers a resize is applied to
ResizeLayers ==
  { [id |-> 1, type |-> "shape", isShape |-> TRUE, shapeType |-> "rect",
     x |-> Num(50000), y |-> Num(50000), width |-> w, height |-> h] :
       w \in StartDims, h \in StartDims }
  \cup
  { [id |-> 1, type |-> "shape", isShape |-> TRUE, shapeType |-> "ellipse",
     x |-> Num(50000), y |-> Num(50000), radiusX |-> w, radiusY |-> h] :
       w \in StartDims, h \in StartDims }
  \cup
  { [id |-> 1, type |-> "image", isShape |-> FALSE, shapeType |-> "none",
     x |-> Num(50000), y |-> Num(50000), width |-> w, height |-> h] :
       w \in StartDims, h \in StartDims }

\* { ...layer, x, y, width: Math.max(5, node.width() * scaleX), height: ... }
RectTransformEnd(layer, scaleX, scaleY) ==
  [layer EXCEPT !.width = MathMax(Num(5000), Times(layer.width, scaleX)),
                !.height = MathMax(Num(5000), Times(layer.height, scaleY))]

\* { ...layer, x, y, radiusX: Math.max(5, node.radiusX * scaleX), radiusY: ... }
EllipseTransformEnd(layer, scaleX, scaleY) ==
  [layer EXCEPT !.radiusX = MathMax(Num(5000), Times(FunctionAsNumber, scaleX)),
                !.radiusY = MathMax(Num(5000), Times(FunctionAsNumber, scaleY))]

\* the image's handler: the same expression as the Rect's
ImageTransformEnd(layer, scaleX, scaleY) ==
  [layer EXCEPT !.width = MathMax(Num(5000), Times(layer.width, scaleX)),
                !.height = MathMax(Num(5000), Times(layer.height, scaleY))]

\* every size the layer stores is a number of at most MaxDim
WithinMaxDim(layer) ==
  IF layer.shapeType = "ellipse"
    THEN (~layer.radiusX.nan => layer.radiusX.v <= MaxDim) /\
         (~layer.radiusY.nan => layer.radiusY.v <= MaxDim)
    ELSE (~layer.width.nan => layer.width.v <= MaxDim) /\
         (~layer.height.nan => layer.height.v <= MaxDim)

\* onChange(updated): setLayers(prev => prev.map(p => p.id === layer.id ? updated : p))
TransformEnd(op, shapeType, updated) ==
  /\ layers[1].shapeType = shapeType
  /\ WithinMaxDim(updated)
  /\ layers' = << updated >>
  /\ lastOp' = op
  /\ UNCHANGED << mounted, brushVars, activeLayerId, lines, historyVars,
                  isDrawing, nextId, pending, extras, afterUndo, edits,
                  committed, ended, gesture >>

rectTransformEnd(scaleX, scaleY) ==
  TransformEnd("rectTransformEnd", "rect",
               RectTransformEnd(layers[1], scaleX, scaleY))

ellipseTransformEnd(scaleX, scaleY) ==
  TransformEnd("ellipseTransformEnd", "ellipse",
               EllipseTransformEnd(layers[1], scaleX, scaleY))

imageTransformEnd(scaleX, scaleY) ==
  TransformEnd("imageTransformEnd", "none",
               ImageTransformEnd(layers[1], scaleX, scaleY))

InitResize ==
  /\ mounted = TRUE
  /\ tool = "brush"
  /\ brushColor = "#000000"
  /\ brushSize = 6
  /\ brushOpacity = 100
  /\ layers \in { << l >> : l \in ResizeLayers }
  /\ activeLayerId = 1
  /\ lines = [id \in Ids |-> <<>>]
  /\ history = <<>>
  /\ historyIndex = -1
  /\ isDrawing = FALSE
  /\ nextId = 2
  /\ pending = <<>>
  /\ extras = 0
  /\ lastOp = "init"
  /\ afterUndo = FALSE
  /\ edits = 0
  /\ committed = NoCommitted
  /\ ended = {}
  /\ gesture = NoGesture

NextResize ==
  \/ \E scaleX \in ScaleFactors, scaleY \in ScaleFactors :
       rectTransformEnd(scaleX, scaleY)
  \/ \E scaleX \in ScaleFactors, scaleY \in ScaleFactors :
       ellipseTransformEnd(scaleX, scaleY)
  \/ \E scaleX \in ScaleFactors, scaleY \in ScaleFactors :
       imageTransformEnd(scaleX, scaleY)

SpecResize == InitResize /\ [][NextResize]_vars

(***************************************************************************)
(* Rendering: what the Stage draws, and exportPNG exports, for a stack and *)
(* its strokes.  Each layer of the stack becomes a Konva Layer, in stack   *)
(* order; its children are drawn in the order they are written: the Lines  *)
(* of the layer's strokes, then the KonvaImage of an image layer.  The     *)
(* layer's visible flag is passed as listening (hit detection) only.       *)
(***************************************************************************)
\* the children of one <Layer>, in drawing order
LayerChildren(layer, ln) ==
  [k \in 1..Len(ln[layer.id]) |->
     [layer |-> layer.id, kind |-> "stroke", stroke |-> ln[layer.id][k].id]]
  \o (IF layer.type = "image"
        THEN << [layer |-> layer.id, kind |-> "image", stroke |-> 0] >>
        ELSE << >>)

\* layers.map(layer => <Layer>...</Layer>): everything drawn, in order
RECURSIVE DrawOps(_, _)
DrawOps(ls, ln) ==
  IF ls = << >> THEN << >>
  ELSE LayerChildren(Head(ls), ln) \o DrawOps(Tail(ls), ln)

\* the layer has something to draw: strokes, or an image
HasContent(layer, ln) == Len(ln[layer.id]) > 0 \/ layer.type = "image"

\* blendToComposite(blend): the globalCompositeOperation of the <Layer>;
\* "" is the empty string and stands for every falsy (unset) value
blendToComposite(blend) ==
  IF blend = "" THEN "source-over"
  ELSE CASE blend = "normal"   -> "source-over"
         [] blend = "multiply" -> "multiply"
         [] blend = "screen"   -> "screen"
         [] OTHER              -> "source-over"

\* globalCompositeOperation={blendToComposite(layer.blend)}
LayerComposite(layer) == blendToComposite(layer.blend)

(***************************************************************************)
(* The blend select of the LayersPanel component, which offers Normal,     *)
(* Multiply, Screen and Overlay, and changeBlendMode(id, value) called     *)
(* with a value that is no blend name or is empty.                         *)
(***************************************************************************)
BlendArgs == {"normal", "multiply", "screen", "overlay", "hue", ""}

NextBlend ==
  \/ Mount
  \/ addLayer("Layer")
  \/ \E id \in Ids, value \in BlendArgs : changeBlendMode(id, value, FALSE)

SpecBlend == Init /\ [][NextBlend]_vars

(***************************************************************************)
(* Properties.                                                             *)
(***************************************************************************)
HasBase(ls) == \E i \in 1..Len(ls) : ls[i].isBase

\* the handlers that end in pushHistory()
PushOps == {"addLayer", "deleteLayer", "reorderLayer", "handleMouseUp",
            "uploadLoaded", "filterLoaded"}

\* redo() in the current state returns at its guard
RedoIsNoOp ==
  RedoResult(layers, history, historyIndex) =
    [layers |-> layers, historyIndex |-> historyIndex]

\* [x0, y0, x1, y1, ...] of the positions p0, p1, ...
RECURSIVE FlatPoints(_)
FlatPoints(pts) ==
  IF pts = <<>> THEN <<>> ELSE Head(pts) \o FlatPoints(Tail(pts))

\* C1: whatever sequence of layer operations, import and filter completions,
\* undo and redo has run, the layer stack holds at least one layer.
C1_StackNeverEmpty == Len(layers) >= 1

\* a deletion has brought the stack back to its last layer
C1_Witness == lastOp = "deleteLayer" /\ Len(layers) = 1 /\ nextId > 2

\* C2: deleteLayer(id) on a stack of two or more layers, with id the layer
\* marked isBase, leaves the base layer in the stack.
C2_BaseSurvivesDelete ==
  [][\A id \in Ids, bubble \in BOOLEAN :
       ( /\ Len(layers) >= 2
         /\ HasLayer(layers, id)
         /\ findLayer(layers, id).isBase
         /\ deleteLayer(id, bubble) )
       => HasBase(layers')]_vars

C4_PushTruncatesRedo ==
  (afterUndo /\ lastOp \in PushOps) =>
    (Len(history) = historyIndex + 1 /\ RedoIsNoOp)

\* add, undo, add: three pushes with the mount, two snapshots kept
C4_Witness ==
  /\ afterUndo
  /\ lastOp = "addLayer"
  /\ nextId = 4
  /\ Len(history) = 2
  /\ historyIndex = 1

\* C5: where undo is possible, redo() right after undo() gives back the
\* layer stack there was before the undo.
C5_RedoRestoresUndo ==
  (mounted /\ ~UndoRefused(history, historyIndex)) =>
    LET u == UndoResult(layers, history, historyIndex)
    IN  RedoResult(u.layers, history, u.historyIndex).layers = layers

\* C6: once the mount effect has pushed the first snapshot, the history is
\* never empty, its first snapshot is the background-only stack, and the
\* pointer is an index of it.
C6_PointerInRange ==
  mounted =>
    /\ Len(history) >= 1
    /\ history[1] = JSONstringify(InitialLayers)
    /\ 0 <= historyIndex
    /\ historyIndex < Len(history)

\* an undo has taken the pointer back to the first of three snapshots
C6_Witness == lastOp = "undo" /\ historyIndex = 0 /\ Len(history) = 3

\* C7: activeLayerId is the id of a layer of the stack.
C7_ActiveLayerExists == HasLayer(layers, activeLayerId)

\* C8: right after the pointer-up of a gesture of pointer-down, pointer-moves
\* and pointer-up with nothing in between, the layer that was active holds
\* one stroke more, with the positions in event order and the current
\* color, size and tool; no other stroke has changed; and one snapshot has
\* been pushed at the pointer.
C8_GestureAddsOneStroke ==
  gesture.phase = "done" =>
    LET was == gesture.linesBefore
        lid == gesture.lid
        n == Len(lines[lid])
    IN  /\ n = Len(was[lid]) + 1
        /\ SubSeq(lines[lid], 1, n - 1) = was[lid]
        /\ \A id \in Ids \ {lid} : lines[id] = was[id]
        /\ lines[lid][n].points = FlatPoints(gesture.pts)
        /\ lines[lid][n].color = brushColor
        /\ lines[lid][n].size = brushSize
        /\ lines[lid][n].mode = tool
        /\ Len(history) = gesture.historyIndexBefore + 2
        /\ SubSeq(history, 1, Len(history) - 1) =
             SubSeq(gesture.historyBefore, 1, gesture.historyIndexBefore + 1)
        /\ historyIndex = gesture.historyIndexBefore + 1

\* a red brush stroke of pointer-down, one pointer-move, pointer-up
C8_Witness ==
  /\ gesture.phase = "done"
  /\ Len(gesture.pts) = 2
  /\ tool = "brush"
  /\ brushColor = "#ff0000"

\* C9: a pointer-up or a pointer-leave handled while drawing leaves the
\* engine idle and pushes a snapshot.
C9_GestureEndSnapshots ==
  [][(isDrawing /\ lastOp' \in {"handleMouseUp", "handleMouseLeave"}) =>
       /\ ~isDrawing'
       /\ historyIndex' = historyIndex + 1
       /\ Len(history') = historyIndex' + 1]_vars

\* C10: a visibility toggle, an opacity change or a blend-mode change pushes
\* a snapshot: the pointer advances by one to the new last snapshot.
C10_PanelEditsSnapshot ==
  [][(lastOp' \in {"toggleVisibility", "changeOpacity", "changeBlendMode"}
        /\ layers' # layers) =>
       /\ historyIndex' = historyIndex + 1
       /\ Len(history') = historyIndex' + 1]_vars

\* C11: whatever value the panel's opacity setter is given, every layer's
\* stored opacity is in [0, 1] (0..100 hundredths).
C11_OpacityInRange ==
  \A i \in 1..Len(layers) : layers[i].opacity >= 0 /\ layers[i].opacity <= 100

\* C12: on a stack of exactly one layer, deleteLayer of that layer's id
\* leaves the stack, the active layer id, history and historyIndex as they are.
C12_LastLayerDeleteRefused ==
  (mounted /\ Len(layers) = 1) =>
    DeleteResult(layers, activeLayerId, history, historyIndex, layers[1].id) =
      [layers |-> layers, activeLayerId |-> activeLayerId,
       history |-> history, historyIndex |-> historyIndex]

\* the one layer left is the added one, after the Background was deleted
C12_Witness ==
  /\ mounted
  /\ Len(layers) = 1
  /\ ~layers[1].isBase
  /\ activeLayerId = layers[1].id
  /\ lastOp = "deleteLayer"

\* C13: deleteLayer(id) with an id that names no layer of the stack changes
\* neither the stack, nor the active layer id, nor history, nor historyIndex.
C13_UnknownIdDeleteNoOp ==
  mounted =>
    \A id \in Ids \ LayerIds(layers) :
      DeleteResult(layers, activeLayerId, history, historyIndex, id) =
        [layers |-> layers, activeLayerId |-> activeLayerId,
         history |-> history, historyIndex |-> historyIndex]

\* the stack without the layer id
Without(ls, id) == SelectSeq(ls, LAMBDA l : l.id # id)

\* C14: reorderLayer(id, +1 or -1) on a layer of the stack moves it exactly
\* one position that way, keeping the layers and the order of the others;
\* at the boundary in that direction it changes neither the order nor the
\* history.
C14_ReorderMovesOne ==
  [][\A id \in Ids, direction \in {-1, 1}, bubble \in BOOLEAN :
       (HasLayer(layers, id) /\ reorderLayer(id, direction, bubble)) =>
         LET target == findIndex(layers, id) + direction
         IN  IF target < 0 \/ target > Len(layers) - 1
               THEN /\ layers' = layers
                    /\ history' = history
                    /\ historyIndex' = historyIndex
               ELSE /\ findIndex(layers', id) = target
                    /\ findLayer(layers', id) = findLayer(layers, id)
                    /\ Without(layers', id) = Without(layers, id)]_vars

\* C15: for adjacent layers A (below) with one stroke s1 and B (above) with
\* one stroke s2, mergeUp(A.id) or mergeDown(B.id) leaves one layer fewer,
\* with one layer at A's position whose strokes are [s1, s2].
C15_MergeJoinsStrokes ==
  [][\A i \in 1..(Len(layers) - 1) :
       LET A == layers[i]
           B == layers[i + 1]
       IN  ( /\ Len(lines[A.id]) = 1
             /\ Len(lines[B.id]) = 1
             /\ (mergeUp(A.id) \/ mergeDown(B.id)) )
           => /\ Len(layers') = Len(layers) - 1
              /\ lines'[layers'[i].id] = lines[A.id] \o lines[B.id]]_vars

\* C16: the completion of an image import appends the new image layer to
\* the stack as it is at that moment, every layer edit made since the import
\* started included, and makes the new layer the active one.
C16_ImportAppendsAtCompletion ==
  [][lastOp' = "uploadLoaded" =>
       /\ Len(layers') = Len(layers) + 1
       /\ SubSeq(layers', 1, Len(layers)) = layers
       /\ layers'[Len(layers')].type = "image"
       /\ activeLayerId' = layers'[Len(layers')].id]_vars

\* a layer was added while the import was loading: the stack holds it below
\* the image, and the snapshot pushed at completion is of the stack the
\* import started on
C16_Witness ==
  /\ lastOp = "uploadLoaded"
  /\ Len(layers) = 3
  /\ layers[2].type = "raster"
  /\ layers[3].type = "image"
  /\ Len(history) = 2
  /\ history[2] = JSONstringify(InitialLayers)

\* new is old under the grayscale rule: R = G = B = v, v the channel value
\* nearest to 0.2126 R + 0.7152 G + 0.0722 B, and alpha as it was
IsGrayOf(old, new) ==
  LET luma == 2126 * old[1] + 7152 * old[2] + 722 * old[3]
  IN  /\ new[1] \in 0..255
      /\ new[2] = new[1]
      /\ new[3] = new[1]
      /\ new[4] = old[4]
      /\ 10000 * new[1] - luma <= 5000
      /\ luma - 10000 * new[1] <= 5000

\* the grayscale filter has turned every pixel of its layer into its gray
\* value, and the pixel (100, 150, 200) into the gray value example
GrayscaleGives(example) ==
  \A i \in 1..Len(pending) :
    ( /\ pending[i].kind = "filter"
      /\ pending[i].filter = "grayscale"
      /\ HasLayer(layers, pending[i].layerId)
      /\ filterLoaded(i) )
    => LET old == pending[i].src.data
           new == findLayer(layers', pending[i].layerId).src.data
       IN  /\ Len(new) = Len(old)
           /\ \A k \in 1..Len(old) :
                /\ IsGrayOf(old[k], new[k])
                /\ SubSeq(old[k], 1, 3) = << 100, 150, 200 >> => new[k][1] = example

\* C17 as stated: grayscale sets R, G and B of every pixel to the rounded
\* 0.2126 R + 0.7152 G + 0.0722 B and keeps alpha; (100, 150, 200) becomes 135.
C17_GrayscaleExample135 == [][GrayscaleGives(135)]_vars

\* C17 amended: the same, and (100, 150, 200) becomes 143.
C17_GrayscaleExample143 == [][GrayscaleGives(143)]_vars

\* a grayscale filter has completed on the imported image
C17_Witness ==
  /\ lastOp = "filterLoaded"
  /\ \E i \in 1..Len(layers) :
       /\ layers[i].type = "image"
       /\ layers[i].src.data = << <<143, 143, 143, 255>>, <<255, 255, 255, 255>> >>

\* n is a number (not NaN) of at least 5
AtLeast5(n) == ~n.nan /\ n.v >= 5000

\* C18: after a resize of a rectangle, an ellipse or an image layer, with
\* any scale factors, each stored width, height, radiusX and radiusY is a
\* number of at least 5.
C18_ResizeKeepsMinimum ==
  lastOp \in {"rectTransformEnd", "ellipseTransformEnd", "imageTransformEnd"} =>
    IF layers[1].shapeType = "ellipse"
      THEN AtLeast5(layers[1].radiusX) /\ AtLeast5(layers[1].radiusY)
      ELSE AtLeast5(layers[1].width) /\ AtLeast5(layers[1].height)

\* C19: the layers that put strokes or base content into the rendered
\* output are exactly the layers with visible = true (that have any).
C19_HiddenLayersSkipped ==
  LET ops == DrawOps(layers, lines)
  IN  { ops[k].layer : k \in 1..Len(ops) } =
      { layers[i].id : i \in { j \in 1..Len(layers) :
                                 layers[j].visible /\ HasContent(layers[j], lines) } }

\* C20: within a layer the base content is drawn first and the strokes
\* after it in creation order; the layers are drawn in stack order, bottom
\* first.
C20_BaseContentBelowStrokes ==
  LET ops == DrawOps(layers, lines)
  IN  \A j \in 1..Len(ops), k \in 1..Len(ops) :
        j < k =>
          IF ops[j].layer = ops[k].layer
            THEN /\ ops[k].kind = "stroke"
                 /\ ops[j].kind = "stroke" => ops[j].stroke < ops[k].stroke
            ELSE findIndex(layers, ops[j].layer) < findIndex(layers, ops[k].layer)

\* C21: every layer is composited with the operation of its blend value:
\* normal with alpha-over, multiply, screen and overlay each with the blend
\* of the same name, an unknown or unset value with alpha-over.
C21_BlendMapping ==
  \A i \in 1..Len(layers) :
    LayerComposite(layers[i]) =
      IF layers[i].blend \in {"multiply", "screen", "overlay"}
        THEN layers[i].blend
        ELSE "source-over"

\* C22: after a committed edit (layer add, delete, reorder, import
\* completion, filter completion) and after an undo or a redo, the snapshot
\* at history[historyIndex] is deep-equal to the current layer stack.
C22_SnapshotIsCurrentStack ==
  lastOp \in {"addLayer", "deleteLayer", "reorderLayer", "uploadLoaded",
              "filterLoaded", "undo", "redo"} =>
    JSONparse(history[historyIndex + 1]).layers = layers

\* C23: after k >= 1 layer edits that produced the stacks S1..Sk from S0,
\* and j <= k undos after them (j >= 1), the layer stack is S(k-j); with
\* j = 1, one undo leaves S(k-1).
C23_UndoIsLinear ==
  committed.undos >= 1 =>
    layers = committed.stacks[Len(committed.stacks) - committed.undos]

\* C24: an undo right after a completed stroke gesture takes the gesture's
\* stroke away: the layer it was drawn on holds the strokes it held before
\* the gesture, and the stroke is no longer drawn.
C24_UndoRemovesStroke ==
  [][(gesture.phase = "done" /\ lastOp' = "undo") =>
       LET lid == gesture.lid
           stroke == lines[lid][Len(lines[lid])]
           ops == DrawOps(layers', lines')
       IN  /\ lines'[lid] = gesture.linesBefore[lid]
           /\ \A k \in 1..Len(ops) :
                ~(ops[k].kind = "stroke" /\ ops[k].stroke = stroke.id)]_vars

\* C25: when an import or a filter completes right after a layer edit that
\* was committed while it was in flight, the history keeps every snapshot
\* it had, the edit's included, gains the completion's snapshot, and the
\* pointer is at that last snapshot.
C25_CompletionKeepsHistory ==
  [][(/\ lastOp \in {"addLayer", "deleteLayer", "reorderLayer"}
      /\ lastOp' \in {"uploadLoaded", "filterLoaded"}) =>
       /\ Len(history') = Len(history) + 1
       /\ SubSeq(history', 1, Len(history)) = history
       /\ historyIndex' = Len(history') - 1]_vars

\* C26: the points of a stroke whose gesture has ended (by a pointer-up or
\* a pointer-leave) are changed by no later step: no pointer event, tool
\* change, active-layer change or layer operation.
C26_EndedStrokesKeepPoints ==
  [][\A id \in Ids : \A k \in 1..Len(lines[id]) :
       lines[id][k].id \in ended =>
         /\ Len(lines'[id]) >= k
         /\ lines'[id][k].id = lines[id][k].id
         /\ lines'[id][k].points = lines[id][k].points]_vars

=============================================================================
